---- MODULE Spec2Model ----
(***************************************************************************)
(* A model of auto_readme.py (class AutoReadme): the ignore-file loader,   *)
(* the path classifier, the two project traversals and the orchestration   *)
(* of generate_dependency / generate_readme over the output directory.     *)
(*                                                                         *)
(* Python strings are tuples of one-character strings, so that strip,      *)
(* split, startswith, substring search and glob matching are computed on   *)
(* characters as the code computes them.                                   *)
(***************************************************************************)
EXTENDS Integers, Sequences, FiniteSets, TLC

VARIABLES
    project_dir,     \* self.project_dir, as given to the constructor
    tree,            \* the entries below the project directory (the .gitignore apart)
    gitignore,       \* the project's .gitignore: whether it exists, and its text
    runs,            \* the traversals made so far, each with the patterns it loaded
                     \* and the paths it visited
    out_dir,         \* self.out_put_dir: the files it holds, each with its text
    pc,              \* where the orchestrator stands: "idle", or a point of generate_dependency
    call,            \* the call in progress, or the last one: what it did and how it ended
    script_list,     \* scripts, in generate_description_of_all_scripts
    script_description, \* script_description, as built so far: <<path, description>> pairs
    ncalls,          \* how many calls of generate_dependency / generate_readme were made
    dependency_done  \* some call of generate_dependency has returned normally

scanVars == <<project_dir, tree, gitignore, runs>>

orchVars == <<out_dir, pc, call, script_list, script_description, ncalls,
              dependency_done>>

vars == <<scanVars, orchVars>>

-----------------------------------------------------------------------------
(* Bounds *)

\* how many traversals are recorded
MaxRuns == 2

\* how many calls of generate_dependency / generate_readme a caller makes
MaxCalls == 2

-----------------------------------------------------------------------------
(* Python str operations *)

\* the characters of the model's strings, in code-point order
Chars == <<"\t", "\n", "\r", " ", "#", "*", "-", ".", "/",
           "0", "1", "2", "3", "4", "5", "6", "7", "8", "9", "=", "?",
           "A", "B", "C", "D", "E", "F", "G", "H", "I", "J", "K", "L", "M",
           "N", "O", "P", "Q", "R", "S", "T", "U", "V", "W", "X", "Y", "Z",
           "_",
           "a", "b", "c", "d", "e", "f", "g", "h", "i", "j", "k", "l", "m",
           "n", "o", "p", "q", "r", "s", "t", "u", "v", "w", "x", "y", "z">>

ord(c) == CHOOSE i \in 1..Len(Chars) : Chars[i] = c

\* str.strip() without argument strips these
Whitespace == {" ", "\t", "\n", "\r"}

RECURSIVE lstrip(_, _)
lstrip(s, chars) ==
    IF s # <<>> /\ Head(s) \in chars THEN lstrip(Tail(s), chars) ELSE s

RECURSIVE rstrip(_, _)
rstrip(s, chars) ==
    IF s # <<>> /\ s[Len(s)] \in chars
    THEN rstrip(SubSeq(s, 1, Len(s) - 1), chars)
    ELSE s

strip(s) == rstrip(lstrip(s, Whitespace), Whitespace)

startswith(s, p) == Len(p) <= Len(s) /\ SubSeq(s, 1, Len(p)) = p

endswith(s, p) == Len(p) <= Len(s) /\ SubSeq(s, Len(s) - Len(p) + 1, Len(s)) = p

\* sub in s
contains(s, sub) ==
    \E i \in 0..(Len(s) - Len(sub)) : SubSeq(s, i + 1, i + Len(sub)) = sub

lower_char(c) ==
    IF ord(c) >= ord("A") /\ ord(c) <= ord("Z")
    THEN Chars[ord(c) + (ord("a") - ord("A"))]
    ELSE c

lower(s) == [i \in 1..Len(s) |-> lower_char(s[i])]

\* s.split(sep), sep one character
RECURSIVE split(_, _)
split(s, sep) ==
    LET idx == {i \in 1..Len(s) : s[i] = sep}
    IN  IF idx = {}
        THEN <<s>>
        ELSE LET i == CHOOSE j \in idx : \A k \in idx : j <= k
             IN  <<SubSeq(s, 1, i - 1)>> \o split(SubSeq(s, i + 1, Len(s)), sep)

\* sep.join(parts)
RECURSIVE join_str(_, _)
join_str(sep, parts) ==
    IF parts = <<>> THEN <<>>
    ELSE IF Len(parts) = 1 THEN parts[1]
    ELSE parts[1] \o sep \o join_str(sep, Tail(parts))

\* a < b on str: lexicographic by code point
RECURSIVE str_less(_, _)
str_less(a, b) ==
    IF a = <<>> THEN b # <<>>
    ELSE IF b = <<>> THEN FALSE
    ELSE IF Head(a) = Head(b) THEN str_less(Tail(a), Tail(b))
    ELSE ord(Head(a)) < ord(Head(b))

\* sorted(names), names distinct
RECURSIVE sorted(_)
sorted(S) ==
    IF S = {} THEN <<>>
    ELSE LET m == CHOOSE x \in S : \A y \in S \ {x} : str_less(x, y)
         IN  <<m>> \o sorted(S \ {m})

\* iterating a text file: its lines, each with its line terminator
RECURSIVE readlines(_)
readlines(text) ==
    LET idx == {i \in 1..Len(text) : text[i] = "\n"}
    IN  IF text = <<>> THEN <<>>
        ELSE IF idx = {} THEN <<text>>
        ELSE LET i == CHOOSE j \in idx : \A k \in idx : j <= k
             IN  <<SubSeq(text, 1, i)>> \o readlines(SubSeq(text, i + 1, Len(text)))

\* fnmatch.fnmatch(name, pat) on POSIX: '*' matches any run of characters
\* (path separators included), '?' one character, anything else itself.
\* The patterns of the model hold no '['.
RECURSIVE fnmatch_from(_, _, _, _)
fnmatch_from(name, pat, i, j) ==
    IF j > Len(pat) THEN i > Len(name)
    ELSE IF pat[j] = "*"
         THEN fnmatch_from(name, pat, i, j + 1)
              \/ (i <= Len(name) /\ fnmatch_from(name, pat, i + 1, j))
    ELSE IF pat[j] = "?"
         THEN i <= Len(name) /\ fnmatch_from(name, pat, i + 1, j + 1)
    ELSE i <= Len(name) /\ name[i] = pat[j] /\ fnmatch_from(name, pat, i + 1, j + 1)

fnmatch(name, pat) == fnmatch_from(name, pat, 1, 1)

-----------------------------------------------------------------------------
(* os.path and the file system *)

\* the process's working directory
cwd == <<"/","w">>

\* os.path.join(a, b)
path_join(a, b) ==
    IF startswith(b, <<"/">>) THEN b
    ELSE IF a = <<>> \/ endswith(a, <<"/">>) THEN a \o b
    ELSE a \o <<"/">> \o b

RECURSIVE normsegs(_, _)
normsegs(parts, acc) ==
    IF parts = <<>> THEN acc
    ELSE LET h == Head(parts)
         IN  normsegs(Tail(parts),
                      IF h = <<>> \/ h = <<".">> THEN acc
                      ELSE IF h = <<".",".">>
                           THEN (IF acc = <<>> THEN acc ELSE SubSeq(acc, 1, Len(acc) - 1))
                      ELSE Append(acc, h))

\* the components of os.path.abspath(p)
abssegs(p) ==
    normsegs(split(IF startswith(p, <<"/">>) THEN p ELSE path_join(cwd, p), "/"), <<>>)

\* os.path.relpath(path, start)
relpath(path, start) ==
    LET s == abssegs(start)
        p == abssegs(path)
        m == IF Len(s) < Len(p) THEN Len(s) ELSE Len(p)
        common == {k \in 0..m : SubSeq(s, 1, k) = SubSeq(p, 1, k)}
        i == CHOOSE k \in common : \A l \in common : l <= k
        rel == [j \in 1..(Len(s) - i) |-> <<".",".">>] \o SubSeq(p, i + 1, Len(p))
    IN  IF rel = <<>> THEN <<".">> ELSE join_str(<<"/">>, rel)

File(p) == [path |-> p, isdir |-> FALSE]
Dir(p) == [path |-> p, isdir |-> TRUE]

\* what the project directory holds: the tree, and the .gitignore when there is one
fs == tree \cup (IF gitignore.exists THEN {File(<<<<".","g","i","t","i","g","n","o","r","e">>>>)} ELSE {})

\* where `path` lies below the project directory: its components after the
\* project directory's (<<>> for the project directory itself)
in_project(path) ==
    LET r == abssegs(project_dir)
        a == abssegs(path)
    IN  SubSeq(a, Len(r) + 1, Len(a))

children(rel) ==
    {e \in fs : Len(e.path) = Len(rel) + 1 /\ SubSeq(e.path, 1, Len(rel)) = rel}

\* os.listdir(path), as the set of names: the order is the file system's
listdir(path) == {e.path[Len(e.path)] : e \in children(in_project(path))}

isdir(path) == \E e \in fs : e.path = in_project(path) /\ e.isdir

isfile(path) == \E e \in fs : e.path = in_project(path) /\ ~e.isdir

-----------------------------------------------------------------------------
(* AutoReadme.load_ignore_files *)

ignore_pattern(line) ==
    LET l == lstrip(strip(line), {"/"})
    IN  IF endswith(l, <<"/">>) THEN l \o <<"*">> ELSE l

RECURSIVE ignore_patterns(_)
ignore_patterns(lines) ==
    IF lines = <<>> THEN <<>>
    ELSE LET line == Head(lines)
         IN  (IF line # <<>> /\ ~startswith(line, <<"#">>)
              THEN <<ignore_pattern(line)>>
              ELSE <<>>)
             \o ignore_patterns(Tail(lines))

load_ignore_files ==
    IF gitignore.exists THEN ignore_patterns(readlines(gitignore.text)) ELSE <<>>

(* AutoReadme.is_ignored *)

is_ignored(filepath, ignore_files) ==
    LET relative_path == relpath(filepath, project_dir)
        parts == split(filepath, "/")
    IN  \/ \E k \in 1..Len(parts) : startswith(parts[k], <<".">>)
        \/ contains(relative_path, <<"_","_","p","y","c","a","c","h","e","_","_">>)
        \/ \E k \in 1..Len(ignore_files) : fnmatch(relative_path, ignore_files[k])

(* AutoReadme.generate_project_structure *)

RECURSIVE indent(_)
indent(level) == IF level = 0 THEN <<>> ELSE <<" "," ">> \o indent(level - 1)

dir_line(indent_level, item) == indent(indent_level) \o <<"-"," ","*","*">> \o item \o <<"/","*","*">>

file_line(indent_level, item) == indent(indent_level) \o <<"-"," ">> \o item

\* One step of a traversal: the path it hands to is_ignored and the answer;
\* for the structural walk the line it appends (when not ignored), for the
\* script search whether it appends the path to scripts.
Visit(path, ignored, line, script) ==
    [path |-> path, ignored |-> ignored, line |-> line, script |-> script]

\* the loop over sorted(os.listdir(dir_path)), from the k-th item on
RECURSIVE structure_items(_, _, _, _, _)
structure_items(dir_path, items, k, indent_level, ignore_files) ==
    IF k > Len(items) THEN <<>>
    ELSE LET item == items[k]
             item_path == path_join(dir_path, item)
             rest == structure_items(dir_path, items, k + 1, indent_level, ignore_files)
         IN  IF is_ignored(item_path, ignore_files)
             THEN <<Visit(item_path, TRUE, <<>>, FALSE)>> \o rest
             ELSE IF isdir(item_path)
                  THEN <<Visit(item_path, FALSE, dir_line(indent_level, item), FALSE)>>
                       \o structure_items(item_path, sorted(listdir(item_path)), 1,
                                          indent_level + 1, ignore_files)
                       \o rest
             ELSE <<Visit(item_path, FALSE, file_line(indent_level, item), FALSE)>> \o rest

\* generate_project_structure(dir_path), called with indent_level and
\* ignore_files left to their defaults
structure_visits(dir_path) ==
    structure_items(dir_path, sorted(listdir(dir_path)), 1, 0, load_ignore_files)

\* markdown_lines of a walk
markdown_lines(visits) ==
    LET kept == SelectSeq(visits, LAMBDA v : ~v.ignored)
    IN  [i \in 1..Len(kept) |-> kept[i].line]

generate_project_structure(dir_path) == markdown_lines(structure_visits(dir_path))

(* os.walk and AutoReadme.find_all_scripts_and_config_files *)

\* the orders in which a directory-listing call may return the set S
Listings(S) ==
    {s \in [1..Cardinality(S) -> S] : \A i, j \in 1..Cardinality(S) : s[i] = s[j] => i = j}

\* one listing for every directory below (and including) the project directory
RECURSIVE ScandirOf(_)
ScandirOf(dirs) ==
    IF dirs = {} THEN {<<>>}
    ELSE LET d == CHOOSE x \in dirs : TRUE
         IN  {<<[dir |-> d, names |-> l]>> \o f :
                 l \in Listings({e.path[Len(e.path)] : e \in children(d)}),
                 f \in ScandirOf(dirs \ {d})}

ScandirOrders == ScandirOf({<<>>} \cup {e.path : e \in {x \in fs : x.isdir}})

scandir(order, path) ==
    LET r == in_project(path)
        k == CHOOSE i \in 1..Len(order) : order[i].dir = r
    IN  order[k].names

\* os.walk(top), top-down: top's (root, dirs, files), then each of dirs in turn
RECURSIVE os_walk(_, _)
RECURSIVE os_walk_dirs(_, _, _, _)
os_walk(top, order) ==
    LET names == scandir(order, top)
        dirs == SelectSeq(names, LAMBDA n : isdir(path_join(top, n)))
        files == SelectSeq(names, LAMBDA n : ~isdir(path_join(top, n)))
    IN  <<[root |-> top, dirs |-> dirs, files |-> files]>> \o os_walk_dirs(top, dirs, 1, order)

os_walk_dirs(top, dirs, k, order) ==
    IF k > Len(dirs) THEN <<>>
    ELSE os_walk(path_join(top, dirs[k]), order) \o os_walk_dirs(top, dirs, k + 1, order)

is_script_or_config(root, file) ==
    \/ endswith(file, <<".","p","y">>)
    \/ endswith(file, <<".","s","h">>)
    \/ endswith(file, <<".","b","a","s","h">>)
    \/ (endswith(file, <<".","j","s","o","n">>) /\ contains(lower(root), <<"c","o","n","f","i","g">>))

RECURSIVE scripts_of_files(_, _, _, _)
scripts_of_files(root, files, k, ignore_files) ==
    IF k > Len(files) THEN <<>>
    ELSE LET file == files[k]
             filepath == path_join(root, file)
             ignored == is_ignored(filepath, ignore_files)
         IN  <<Visit(filepath, ignored, <<>>,
                     ~ignored /\ is_script_or_config(root, file) /\ isfile(filepath))>>
             \o scripts_of_files(root, files, k + 1, ignore_files)

RECURSIVE scripts_of_walk(_, _, _)
scripts_of_walk(walk, k, ignore_files) ==
    IF k > Len(walk) THEN <<>>
    ELSE scripts_of_files(walk[k].root, walk[k].files, 1, ignore_files)
         \o scripts_of_walk(walk, k + 1, ignore_files)

scripts_visits(order) == scripts_of_walk(os_walk(project_dir, order), 1, load_ignore_files)

\* scripts of a search
scripts(visits) ==
    LET kept == SelectSeq(visits, LAMBDA v : v.script)
    IN  [i \in 1..Len(kept) |-> kept[i].path]

find_all_scripts_and_config_files(order) == scripts(scripts_visits(order))

-----------------------------------------------------------------------------
(* The inputs of the model *)

ProjectDirs == {<<"/","w","/","p">>, <<".">>, <<".","/","p">>, <<"/","h","/",".","l","/","p">>}

TreeA == {File(<<<<"a",".","p","y">>>>), Dir(<<<<"b","u","i","l","d">>>>),
          File(<<<<"b","u","i","l","d">>, <<"m",".","p","y">>>>), Dir(<<<<"b","u","i","l","d">>, <<"x">>>>),
          File(<<<<"b","u","i","l","d">>, <<"x">>, <<"y">>>>)}

TreeB == {Dir(<<<<".","g","i","t">>>>), File(<<<<".","g","i","t">>, <<"c","o","n","f","i","g">>>>), File(<<<<"b","u","i","l","d">>>>),
          Dir(<<<<"s","r","c">>>>), File(<<<<"s","r","c">>, <<"m","a","i","n",".","p","y">>>>), File(<<<<"s","r","c">>, <<"R","E","A","D","M","E">>>>)}

TreeC == {Dir(<<<<"s","r","c">>>>), File(<<<<"s","r","c">>, <<"m","a","i","n",".","p","y">>>>),
          Dir(<<<<"C","o","n","f","i","g">>>>), File(<<<<"C","o","n","f","i","g">>, <<"s",".","j","s","o","n">>>>), File(<<<<"s",".","j","s","o","n">>>>)}

TreeD == {Dir(<<<<"_","_","p","y","c","a","c","h","e","_","_">>>>), File(<<<<"_","_","p","y","c","a","c","h","e","_","_">>, <<"c",".","p","y">>>>),
          File(<<<<"x","_","_","p","y","c","a","c","h","e","_","_",".","p","y">>>>), File(<<<<"r","u","n",".","s","h">>>>)}

Trees == {TreeA, TreeB, TreeC, TreeD}

\* the projects the orchestrator is run on
TreeS == {File(<<<<"a",".","p","y">>>>), File(<<<<"b",".","s","h">>>>)}

TreeT == {Dir(<<<<"s","r","c">>>>), File(<<<<"s","r","c">>, <<"m","a","i","n",".","p","y">>>>),
          Dir(<<<<"c","o","n","f","i","g">>>>), File(<<<<"c","o","n","f","i","g">>, <<"s",".","j","s","o","n">>>>), File(<<<<"s","r","c">>, <<"R","E","A","D","M","E">>>>)}

OrchTrees == {TreeS, TreeT}

NoGitignore == [exists |-> FALSE, text |-> <<>>]
Gitignore(text) == [exists |-> TRUE, text |-> text]

Gitignores == {NoGitignore,
               Gitignore(<<"b","u","i","l","d","/","\n">>),
               Gitignore(<<"b","u","i","l","d","\n">>),
               Gitignore(<<"#","c","\n","\n","s","r","c">>),
               Gitignore(<<"*",".","p","y","\n">>),
               Gitignore(<<" ","\n","/","b","u","i","l","d","/","\n">>)}

OrchGitignores == {NoGitignore, Gitignore(<<"*",".","s","h","\n">>)}

-----------------------------------------------------------------------------------------------------------------------------------------------------
(* The output directory and the text-generation collaborator *)

PROJECT_STRUCTURE_md == <<"P","R","O","J","E","C","T","_","S","T","R","U","C","T","U","R","E",".","m","d">>
requirements_txt == <<"r","e","q","u","i","r","e","m","e","n","t","s",".","t","x","t">>
requirements_env_txt == <<"r","e","q","u","i","r","e","m","e","n","t","s","_","e","n","v",".","t","x","t">>
SCRIPT_DESCRIPTION_json == <<"S","C","R","I","P","T","_","D","E","S","C","R","I","P","T","I","O","N",".","j","s","o","n">>
README_md == <<"R","E","A","D","M","E",".","m","d">>

EmptyDir == [f \in {} |-> <<>>]

\* open(file_path, "w") and write: the file is created or replaced
save_content_to_file(dir, file_path, content) ==
    [f \in DOMAIN dir \cup {file_path} |-> IF f = file_path THEN content ELSE dir[f]]

\* A JSON value found under "requirements": its type, and for a list its
\* items, for a dict its keys, for a string the string as its one item.
Json(type, chars) == [type |-> type, chars |-> chars]
Value(type, items) == [type |-> type, items |-> items]
Unset == Value("unset", <<>>)
EmptyList == Value("list", <<>>)

\* A reply of get_model_answer to the dependency request: whether it is
\* wrapped in a ```json fence, whether its body is JSON at all ("invalid"
\* when not), whether the JSON is an object, whether the object has the key
\* "requirements", and the value under it.
Reply(fenced, shape, haskey, value) ==
    [fenced |-> fenced, shape |-> shape, haskey |-> haskey, value |-> value]
NoReply == Reply(FALSE, "none", FALSE, Unset)

a1 == Json("str", <<"a","=","=","1">>)
a2 == Json("str", <<"a","=","=","2">>)
b2 == Json("str", <<"b","=","=","2">>)

Replies ==
    {Reply(FALSE, "invalid", FALSE, Unset),                          \* not json
     Reply(FALSE, "array", FALSE, Unset),                            \* [1]
     Reply(FALSE, "object", FALSE, Unset),                           \* {"a": 1}
     Reply(FALSE, "object", TRUE, Value("list", <<a1, b2>>)),
     Reply(TRUE, "object", TRUE, Value("list", <<a1, b2>>)),
     Reply(TRUE, "object", TRUE, EmptyList),
     Reply(FALSE, "object", TRUE, Value("list", <<a1, a2>>)),
     Reply(FALSE, "object", TRUE, Value("int", <<>>)),               \* {"requirements": 5}
     Reply(FALSE, "object", TRUE, Value("null", <<>>)),
     Reply(FALSE, "object", TRUE, Value("str", <<Json("str", <<"a","b">>)>>)),
     Reply(FALSE, "object", TRUE, Value("list", <<a1, Json("int", <<"2">>)>>))}

\* what a description request and the README request are answered with
Description == <<"d">>
Readme == <<"r">>

\* pip freeze, as read back from requirements_env.txt
EnvironmentSnapshot == <<"a","=","=","1","\n">>

(* parse_requirements_output, in generate_project_requirements *)

\* The fence is stripped, the rest goes through json.loads and
\* ["requirements"]; any exception of these three gives [].
parse_requirements_output(output) ==
    IF output.shape = "invalid" THEN EmptyList            \* json.loads raises
    ELSE IF output.shape # "object" THEN EmptyList        \* subscript raises TypeError
    ELSE IF ~output.haskey THEN EmptyList                 \* KeyError
    ELSE output.value

\* "\n".join(requirements) raises TypeError unless requirements is an
\* iterable of str
joinable(requirements) ==
    \/ requirements.type \in {"str", "dict"}
    \/ requirements.type = "list"
       /\ \A k \in 1..Len(requirements.items) : requirements.items[k].type = "str"

\* what "\n".join iterates over
join_parts(requirements) ==
    IF requirements.type = "str"
    THEN LET str == requirements.items[1].chars IN [i \in 1..Len(str) |-> <<str[i]>>]
    ELSE [i \in 1..Len(requirements.items) |-> requirements.items[i].chars]

(* json.dump(scripts_description, f, ensure_ascii=False, indent=4) *)

RECURSIVE json_members(_)
json_members(pairs) ==
    IF pairs = <<>> THEN <<>>
    ELSE <<"\n"," "," "," "," ","\"">> \o pairs[1][1] \o <<"\"",":"," ","\"">> \o pairs[1][2] \o <<"\"">>
         \o (IF Len(pairs) > 1 THEN <<",">> ELSE <<>>)
         \o json_members(Tail(pairs))

json_dump(pairs) ==
    IF pairs = <<>> THEN <<"{","}">> ELSE <<"{">> \o json_members(pairs) \o <<"\n","}">>

(* AutoReadme.get_dependency_content *)

\* the test of line 228 dropped: every file of the directory is read
is_dependency_file_any(file) == TRUE

is_dependency_file(file) ==
    \/ file = requirements_txt
    \/ file = PROJECT_STRUCTURE_md
    \/ file = SCRIPT_DESCRIPTION_json
    \/ contains(file, <<"R","E","A","D","M","E">>)

\* the files read into dependency_content (which is keyed by file.title())
get_dependency_content(dir) == {file \in DOMAIN dir : is_dependency_file(file)}

-----------------------------------------------------------------------------
(* The state machines *)

\* a finished traversal: the patterns it loaded and its visits
Run(op, visits) == [op |-> op, ignore_files |-> load_ignore_files, visits |-> visits]

Call(op, dir) ==
    [op |-> op, outcome |-> "running", error |-> "none", requests |-> 0,
     logged_error |-> FALSE, dir_before |-> dir, reply |-> NoReply,
     requirements |-> Unset]

OrchIdle ==
    /\ pc = "idle"
    /\ call = [Call("none", EmptyDir) EXCEPT !.outcome = "none"]
    /\ script_list = <<>>
    /\ script_description = <<>>
    /\ ncalls = 0
    /\ dependency_done = FALSE

(* The scanner: the traversals, called on their own *)

ScanInit ==
    /\ project_dir \in ProjectDirs
    /\ tree \in Trees
    /\ gitignore \in Gitignores
    /\ runs = <<>>
    /\ out_dir = EmptyDir
    /\ OrchIdle

GenerateProjectStructure ==
    /\ Len(runs) < MaxRuns
    /\ runs' = Append(runs, Run("generate_project_structure", structure_visits(project_dir)))
    /\ UNCHANGED <<project_dir, tree, gitignore, orchVars>>

FindAllScriptsAndConfigFiles ==
    /\ Len(runs) < MaxRuns
    /\ \E order \in ScandirOrders :
           runs' = Append(runs, Run("find_all_scripts_and_config_files", scripts_visits(order)))
    /\ UNCHANGED <<project_dir, tree, gitignore, orchVars>>

ScanNext ==
    \/ GenerateProjectStructure
    \/ FindAllScriptsAndConfigFiles

Spec == ScanInit /\ [][ScanNext]_vars

(* The orchestrator: generate_dependency, step by step *)

\* an exception leaves generate_dependency / generate_readme
Raise(error) ==
    /\ pc' = "idle"
    /\ script_list' = <<>>
    /\ script_description' = <<>>
    /\ call' = [call EXCEPT !.outcome = "raised", !.error = error,
                            !.requests = IF error = "CollaboratorError" THEN @ + 1 ELSE @]

\* line 48 dropped: the structure is computed and never saved
DependencyStructure_unsaved ==
    /\ pc = "gd_structure"
    /\ pc' = "gd_requirements"
    /\ UNCHANGED <<scanVars, out_dir, call, script_list, script_description, ncalls,
                   dependency_done>>

\* lines 45-48: the structure is computed and saved
DependencyStructure ==
    /\ pc = "gd_structure"
    /\ out_dir' = save_content_to_file(out_dir, PROJECT_STRUCTURE_md,
                      join_str(<<"\n">>, generate_project_structure(project_dir)))
    /\ pc' = "gd_requirements"
    /\ UNCHANGED <<scanVars, call, script_list, script_description, ncalls, dependency_done>>

\* lines 50-53: generate_project_requirements (the snapshot, the request,
\* the parse), the join and the save.  What the request says (the import
\* lines of the scripts, the snapshot) is not modelled: the reply is any of
\* Replies.
DependencyRequirements ==
    /\ pc = "gd_requirements"
    /\ LET snapshot == save_content_to_file(out_dir, requirements_env_txt, EnvironmentSnapshot)
       IN  \/ /\ Raise("CollaboratorError")
              /\ out_dir' = snapshot
           \/ \E answer \in Replies :
                  LET requirements == parse_requirements_output(answer)
                      replied == [call EXCEPT !.requests = @ + 1, !.reply = answer,
                                              !.requirements = requirements,
                                              !.logged_error = (requirements # answer.value)]
                  IN  IF joinable(requirements)
                      THEN /\ out_dir' = save_content_to_file(snapshot, requirements_txt,
                                             join_str(<<"\n">>, join_parts(requirements)))
                           /\ call' = replied
                           /\ pc' = "gd_scripts"
                           /\ UNCHANGED <<script_list, script_description>>
                      ELSE /\ out_dir' = snapshot
                           /\ call' = [replied EXCEPT !.outcome = "raised", !.error = "TypeError"]
                           /\ pc' = "idle"
                           /\ UNCHANGED <<script_list, script_description>>
    /\ UNCHANGED <<scanVars, ncalls, dependency_done>>

\* line 108: scripts = self.find_all_scripts_and_config_files()
DependencyFindScripts ==
    /\ pc = "gd_scripts"
    /\ \E order \in ScandirOrders :
           script_list' = find_all_scripts_and_config_files(order)
    /\ script_description' = <<>>
    /\ pc' = "gd_describe"
    /\ UNCHANGED <<scanVars, out_dir, call, ncalls, dependency_done>>

\* lines 110-112: the next script is described, or its request fails
DependencyDescribe ==
    /\ pc = "gd_describe"
    /\ Len(script_description) < Len(script_list)
    /\ \/ /\ script_description' =
                 Append(script_description,
                        <<script_list[Len(script_description) + 1], Description>>)
          /\ call' = [call EXCEPT !.requests = @ + 1]
          /\ UNCHANGED <<pc, script_list>>
       \/ Raise("CollaboratorError")
    /\ UNCHANGED <<scanVars, out_dir, ncalls, dependency_done>>

\* lines 58-60: the descriptions are saved and generate_dependency returns
DependencySave ==
    /\ pc = "gd_describe"
    /\ Len(script_description) = Len(script_list)
    /\ out_dir' = save_content_to_file(out_dir, SCRIPT_DESCRIPTION_json,
                                       json_dump(script_description))
    /\ call' = [call EXCEPT !.outcome = "returned"]
    /\ pc' = "idle"
    /\ script_list' = <<>>
    /\ script_description' = <<>>
    /\ dependency_done' = TRUE
    /\ UNCHANGED <<scanVars, ncalls>>

GenerateDependencySteps ==
    \/ DependencyStructure
    \/ DependencyRequirements
    \/ DependencyFindScripts
    \/ DependencyDescribe
    \/ DependencySave

\* generate_dependency is entered
GenerateDependency ==
    /\ pc = "idle"
    /\ pc' = "gd_structure"
    /\ call' = Call("generate_dependency", out_dir)
    /\ ncalls' = ncalls + 1
    /\ UNCHANGED <<scanVars, out_dir, script_list, script_description, dependency_done>>

(* AutoReadme.generate_readme *)

GenerateReadme ==
    /\ pc = "idle"
    /\ ncalls' = ncalls + 1
    /\ LET dependencies == get_dependency_content(out_dir)
           entered == Call("generate_readme", out_dir)
       IN  IF dependencies = {}
           THEN /\ call' = [entered EXCEPT !.outcome = "returned", !.logged_error = TRUE]
                /\ UNCHANGED out_dir
           ELSE \/ /\ call' = [entered EXCEPT !.outcome = "returned", !.requests = 1]
                   /\ out_dir' = save_content_to_file(out_dir, README_md, Readme)
                \/ /\ call' = [entered EXCEPT !.outcome = "raised", !.requests = 1,
                                              !.error = "CollaboratorError"]
                   /\ UNCHANGED out_dir
    /\ UNCHANGED <<scanVars, pc, script_list, script_description, dependency_done>>

(* Any caller: the two operations in any order, over a directory that may
   already hold files *)

InitialDirs ==
    {EmptyDir,
     save_content_to_file(save_content_to_file(EmptyDir, <<"n","o","t","e","s",".","t","x","t">>, <<"n">>),
                          <<"r","e","a","d","m","e",".","m","d">>, <<"x">>),
     save_content_to_file(EmptyDir, <<"O","L","D","_","R","E","A","D","M","E",".","t","x","t">>, <<"o">>)}

CallsInit ==
    /\ project_dir = <<"/","w","/","p">>
    /\ tree = TreeS
    /\ gitignore \in OrchGitignores
    /\ runs = <<>>
    /\ out_dir \in InitialDirs
    /\ OrchIdle

CallGenerateDependency == ncalls < MaxCalls /\ GenerateDependency

CallGenerateReadme == ncalls < MaxCalls /\ GenerateReadme

CallsNext ==
    \/ CallGenerateDependency
    \/ CallGenerateReadme
    \/ GenerateDependencySteps

SpecCalls == CallsInit /\ [][CallsNext]_vars

(* The script (lines 339-341, and sample): generate_dependency, then
   generate_readme; an exception of the first ends the process *)

MainInit ==
    /\ project_dir \in {<<"/","w","/","p">>, <<".">>}
    /\ tree \in OrchTrees
    /\ gitignore \in OrchGitignores
    /\ runs = <<>>
    /\ out_dir = EmptyDir
    /\ OrchIdle

MainGenerateDependency == ncalls = 0 /\ GenerateDependency

MainGenerateReadme ==
    /\ ncalls = 1
    /\ call.outcome = "returned"
    /\ GenerateReadme

MainNext ==
    \/ MainGenerateDependency
    \/ MainGenerateReadme
    \/ GenerateDependencySteps

SpecMain == MainInit /\ [][MainNext]_vars

-----------------------------------------------------------------------------
(* The claims *)

StructureRuns == {i \in 1..Len(runs) : runs[i].op = "generate_project_structure"}

ScriptRuns == {i \in 1..Len(runs) : runs[i].op = "find_all_scripts_and_config_files"}

\* the paths a structural walk renders
rendered(run) ==
    {run.visits[k].path : k \in {j \in 1..Len(run.visits) : ~run.visits[j].ignored}}

\* C1: every path returned by find_all_scripts_and_config_files is a
\* non-ignored file that generate_project_structure visits and renders.
C1_ScriptsAreRendered ==
    \A i \in ScriptRuns, j \in StructureRuns :
        LET found == scripts(runs[i].visits)
        IN  \A k \in 1..Len(found) : found[k] \in rendered(runs[j])

\* the lines of an ignore file that are neither blank nor comments
pattern_lines(text) ==
    LET lines == readlines(text)
    IN  {k \in 1..Len(lines) : strip(lines[k]) # <<>> /\ ~startswith(lines[k], <<"#">>)}

\* C4: load_ignore_files returns exactly one pattern per line that is
\* neither blank nor #-prefixed; blank lines and comments add no element.
C4_OnePatternPerLine ==
    \A i \in 1..Len(runs) :
        Len(runs[i].ignore_files) =
            IF gitignore.exists THEN Cardinality(pattern_lines(gitignore.text)) ELSE 0

\* C5: two runs of a traversal on the unchanged tree give the same
\* structure lines and the same relevant files in the same order, whatever
\* order the directory listings come in.
C5_TraversalsRepeat ==
    \A i, j \in 1..Len(runs) :
        runs[i].op = runs[j].op =>
            /\ markdown_lines(runs[i].visits) = markdown_lines(runs[j].visits)
            /\ scripts(runs[i].visits) = scripts(runs[j].visits)

\* C7: with the one pattern line build/, is_ignored holds of every path
\* strictly below the top-level directory build, and not of a top-level
\* file named build.
C7_BuildSlash ==
    gitignore = Gitignore(<<"b","u","i","l","d","/","\n">>) =>
        \A i \in 1..Len(runs) : \A k \in 1..Len(runs[i].visits) :
            LET v == runs[i].visits[k]
                rel == in_project(v.path)
            IN  /\ (Len(rel) >= 2 /\ rel[1] = <<"b","u","i","l","d">>) => v.ignored
                /\ (rel = <<<<"b","u","i","l","d">>>> /\ isfile(v.path)) => ~v.ignored

\* C10: an entry whose path relative to the project root has no dot-prefixed
\* segment and no __pycache__ segment and matches no pattern is not ignored,
\* however the project root is spelled.
C10_RelativePathDecides ==
    \A i \in 1..Len(runs) : \A k \in 1..Len(runs[i].visits) :
        LET v == runs[i].visits[k]
            rel == in_project(v.path)
            relative == join_str(<<"/">>, rel)
            patterns == runs[i].ignore_files
        IN  (/\ \A s \in 1..Len(rel) : ~startswith(rel[s], <<".">>) /\ rel[s] # <<"_","_","p","y","c","a","c","h","e","_","_">>
             /\ \A p \in 1..Len(patterns) : ~fnmatch(relative, patterns[p]))
            => ~v.ignored

\* C2: generate_readme asks the text-generation collaborator (and so writes
\* README.md) only if an earlier generate_dependency has returned, having
\* written the structure, dependency and description files.
C2_ReadmeOnlyAfterDependency ==
    (call.op = "generate_readme" /\ call.requests > 0) => dependency_done

\* a reply that is a JSON object with a requirements array of strings
wellformed(reply) ==
    /\ reply.shape = "object"
    /\ reply.haskey
    /\ reply.value.type = "list"
    /\ \A k \in 1..Len(reply.value.items) : reply.value.items[k].type = "str"

\* C3: a dependency reply that is not a JSON object with a requirements
\* array of strings gives the empty dependency list, and generate_dependency
\* writes requirements.txt with no exception of its own.
C3_MalformedReplyGivesEmptyList ==
    (call.op = "generate_dependency" /\ call.reply # NoReply /\ ~wellformed(call.reply)) =>
        /\ call.requirements = EmptyList
        /\ call.error # "TypeError"
        /\ requirements_txt \in DOMAIN out_dir

dependency_name(entry) == split(entry, "=")[1]

\* C6: no two lines written to requirements.txt name the same dependency.
C6_UniqueDependencyNames ==
    (call.op = "generate_dependency" /\ requirements_txt \in DOMAIN out_dir) =>
        LET lines == split(out_dir[requirements_txt], "\n")
        IN  \A i, j \in 1..Len(lines) :
                dependency_name(lines[i]) = dependency_name(lines[j]) => i = j

\* the directory holds none of the files generate_readme reads
no_dependency_files(dir) ==
    \A file \in DOMAIN dir :
        /\ file \notin {requirements_txt, PROJECT_STRUCTURE_md, SCRIPT_DESCRIPTION_json}
        /\ ~contains(file, <<"R","E","A","D","M","E">>)

\* C8: generate_readme on a directory with none of requirements.txt,
\* PROJECT_STRUCTURE.md, SCRIPT_DESCRIPTION.json or a README-named file logs
\* an error, makes no text-generation request, leaves the directory as it
\* was and returns normally.
C8_ReadmeWithoutDependencies ==
    (call.op = "generate_readme" /\ no_dependency_files(call.dir_before)) =>
        /\ call.outcome = "returned"
        /\ call.logged_error
        /\ call.requests = 0
        /\ out_dir = call.dir_before

\* generate_readme was called on a directory that holds files, none of them
\* one it reads
C8_Witness ==
    /\ call.op = "generate_readme"
    /\ no_dependency_files(call.dir_before)
    /\ DOMAIN call.dir_before # {}

ArtifactOrder ==
    <<PROJECT_STRUCTURE_md, requirements_txt, SCRIPT_DESCRIPTION_json, README_md>>

artifacts_present == {k \in 1..Len(ArtifactOrder) : ArtifactOrder[k] \in DOMAIN out_dir}

\* C9: in a run of the script from an empty output directory, the artifacts
\* present are at every point a prefix of PROJECT_STRUCTURE.md,
\* requirements.txt, SCRIPT_DESCRIPTION.json, README.md.
C9_ArtifactsArePrefix ==
    \E n \in 0..Len(ArtifactOrder) : artifacts_present = 1..n

\* a description request failed: the run ended with the structure and the
\* dependency file, and neither of the other two
C9_Witness ==
    /\ pc = "idle"
    /\ call.op = "generate_dependency"
    /\ call.error = "CollaboratorError"
    /\ call.requests >= 2
    /\ artifacts_present = {1, 2}

====
